---- MODULE Spec2Model ----
(***************************************************************************)
(* A model of the auto-delete bot of src/bot.py: the time parser, the      *)
(* group settings held in the GROUP_SETTINGS cache and in the MongoDB      *)
(* collection, the /set_time and new-chat handlers, and the per-message    *)
(* delete_message handler.  Handlers are coroutines: each action below is  *)
(* the code a handler runs between two awaits.                             *)
(***************************************************************************)
EXTENDS Integers, Sequences, FiniteSets, TLC

(***************************************************************************)
(* Program constants and bounds of the model.                              *)
(***************************************************************************)
DEFAULT_DELETE_TIME == 600
MIN_SECONDS == 30
MAX_SECONDS == 604800

\* parse_time_to_seconds returns None; delete_time values are >= 0.
None == -1
\* parse_time_to_seconds is left by the ValueError of int().
ValueError == -2

\* Number of /set_time and new-chat handler invocations in flight at once.
MaxCmds == 1
\* Invocations of the setting handlers in flight at once in ConcSpec.
MaxConc == 2
\* Number of delete_message handler invocations in flight at once in TaskSpec.
MaxTasks == 1
\* Workers that run delete_message handlers at once in PendingSpec and
\* LiveSpec. The program's client has workers=300: a worker runs one handler
\* at a time, to its end, and MaxLive stands for that number.
MaxLive == 2
\* Message updates that wait for a worker at once in LiveSpec.
MaxQueue == 1
\* Seconds the clock advances in one Tick.
TickSeconds == 300
\* Longest time string given to the parser in ParseSpec.
MaxLen == 3
\* Largest number of units in the durations of FormatSpec.
MaxQuot == 3

Groups == {"g1", "g2"}
\* Chats of type PRIVATE, and the chats a /set_time can come from.
PrivateChats == {"p1"}
Chats == Groups \cup PrivateChats
\* Senders of /set_time.
Users == {"u1"}
\* Users the platform may list as administrators of a group.
Members == {"u1", "u2"}
\* delete_time values of the records the collection may hold at start-up.
InitValues == {0, 600}
\* Waits carried by a rate-limit signal (FloodWait), above sleep_threshold.
FloodWaits == {15}

(***************************************************************************)
(* Time strings are sequences of characters; a character outside printable *)
(* ASCII is written by its escape or its code point ("U+0663").            *)
(***************************************************************************)
AsciiDigits == {"0", "1", "2", "3", "4", "5", "6", "7", "8", "9"}

\* The decimal digits: the characters \d matches and int() reads. Those of
\* the scripts other than ASCII are represented by the Arabic-Indic digits
\* zero (U+0660) and three (U+0663).
Digits == AsciiDigits \cup {"U+0660", "U+0663"}

\* Characters for which str.isdigit() holds and that are no decimal digits
\* (superscripts, circled digits, ...), represented by superscript two.
OtherDigits == {"U+00B2"}

Units == {"s", "m", "h", "d", "w"}

\* The characters str.strip() removes: those of str.isspace().
Whitespace ==
    {" ", "\t", "\n", "U+000B", "U+000C", "U+000D", "U+001C", "U+001D",
     "U+001E", "U+001F", "U+0085", "U+00A0", "U+1680", "U+2000", "U+2001",
     "U+2002", "U+2003", "U+2004", "U+2005", "U+2006", "U+2007", "U+2008",
     "U+2009", "U+200A", "U+2028", "U+2029", "U+202F", "U+205F", "U+3000"}

DigitVal(c) ==
    CASE c = "0" -> 0 [] c = "1" -> 1 [] c = "2" -> 2 [] c = "3" -> 3
      [] c = "4" -> 4 [] c = "5" -> 5 [] c = "6" -> 6 [] c = "7" -> 7
      [] c = "8" -> 8 [] c = "9" -> 9
      [] c = "U+0660" -> 0 [] c = "U+0663" -> 3

\* str.lower() on one character.
LowerChar(c) ==
    CASE c = "S" -> "s" [] c = "M" -> "m" [] c = "H" -> "h"
      [] c = "D" -> "d" [] c = "W" -> "w" [] c = "X" -> "x"
      [] OTHER -> c

Lower(s) == [i \in 1..Len(s) |-> LowerChar(s[i])]

RECURSIVE LStrip(_)
LStrip(s) ==
    IF s # <<>> /\ Head(s) \in Whitespace THEN LStrip(Tail(s)) ELSE s

RECURSIVE RStrip(_)
RStrip(s) ==
    IF s # <<>> /\ s[Len(s)] \in Whitespace
    THEN RStrip(SubSeq(s, 1, Len(s) - 1))
    ELSE s

\* str.strip()
Strip(s) == RStrip(LStrip(s))

\* str.isdigit(): non-empty and every character a digit, decimal or not.
IsDigitStr(s) ==
    s # <<>> /\ \A i \in 1..Len(s) : s[i] \in Digits \cup OtherDigits

\* \d+ matches the whole of s: non-empty and every character a decimal digit.
IsDecimalStr(s) == s # <<>> /\ \A i \in 1..Len(s) : s[i] \in Digits

\* The value of a string of decimal digits.
RECURSIVE DecimalValue(_)
DecimalValue(s) ==
    IF s = <<>> THEN 0
    ELSE 10 * DecimalValue(SubSeq(s, 1, Len(s) - 1)) + DigitVal(s[Len(s)])

\* int() of a string for which isdigit() holds or that \d+ matched: its
\* value, or ValueError when a character is no decimal digit.
ToInt(s) == IF IsDecimalStr(s) THEN DecimalValue(s) ELSE ValueError

time_multipliers(unit) ==
    CASE unit = "s" -> 1
      [] unit = "m" -> 60
      [] unit = "h" -> 3600
      [] unit = "d" -> 86400
      [] unit = "w" -> 604800

\* re.match(r'^(\d+)([smhdw])?$', s): the pair <<group(1), group(2)>>,
\* group(2) = "" when the unit is absent, or <<>> when there is no match.
RegexMatch(s) ==
    IF IsDecimalStr(s) THEN <<s, "">>
    ELSE IF Len(s) >= 2 /\ s[Len(s)] \in Units
            /\ IsDecimalStr(SubSeq(s, 1, Len(s) - 1))
         THEN <<SubSeq(s, 1, Len(s) - 1), s[Len(s)]>>
         ELSE <<>>

parse_time_to_seconds(time_str) ==
    IF time_str = <<>> THEN None
    ELSE LET s == Lower(Strip(time_str)) IN
         IF IsDigitStr(s) THEN ToInt(s)
         ELSE LET match == RegexMatch(s) IN
              IF match = <<>> THEN None
              ELSE LET value == ToInt(match[1])
                       unit == IF match[2] = "" THEN "s" ELSE match[2]
                       total_seconds == value * time_multipliers(unit)
                   IN IF total_seconds < MIN_SECONDS THEN None
                      ELSE IF total_seconds > MAX_SECONDS THEN None
                      ELSE total_seconds

\* format_time: the number and the unit letter of the text it builds.
format_time_Ceil(seconds) ==
    IF seconds >= 604800 THEN <<(seconds + 604799) \div 604800, "w">>
    ELSE IF seconds >= 86400 THEN <<(seconds + 86399) \div 86400, "d">>
    ELSE IF seconds >= 3600 THEN <<(seconds + 3599) \div 3600, "h">>
    ELSE IF seconds >= 60 THEN <<(seconds + 59) \div 60, "m">>
    ELSE <<seconds, "s">>

format_time(seconds) ==
    IF seconds >= 604800 THEN <<seconds \div 604800, "w">>
    ELSE IF seconds >= 86400 THEN <<seconds \div 86400, "d">>
    ELSE IF seconds >= 3600 THEN <<seconds \div 3600, "h">>
    ELSE IF seconds >= 60 THEN <<seconds \div 60, "m">>
    ELSE <<seconds, "s">>

DigitChar(n) ==
    CASE n = 0 -> "0" [] n = 1 -> "1" [] n = 2 -> "2" [] n = 3 -> "3"
      [] n = 4 -> "4" [] n = 5 -> "5" [] n = 6 -> "6" [] n = 7 -> "7"
      [] n = 8 -> "8" [] n = 9 -> "9"

\* The decimal digits an f-string writes for a natural number.
RECURSIVE DigitsOf(_)
DigitsOf(n) ==
    IF n < 10 THEN <<DigitChar(n)>>
    ELSE Append(DigitsOf(n \div 10), DigitChar(n % 10))

\* f"{n}{unit}": the text format_time returns.
format_time_text(seconds) ==
    LET f == format_time(seconds) IN Append(DigitsOf(f[1]), f[2])

(***************************************************************************)
(* State.                                                                  *)
(***************************************************************************)
VARIABLES
    phase,              \* main(): "loading", then "running"; "crashed" if the load raised
    loaded,             \* records the load cursor has already yielded
    GROUP_SETTINGS,     \* the in-memory cache: a dict chat_id -> delete_time
    groups_collection,  \* the persisted documents {group_id, delete_time}
    handlers,           \* /set_time and new-chat handler invocations
    tasks,              \* delete_message handler invocations
    time_str,           \* the parser's input (ParseSpec)
    parsed,             \* the parser's result, and its text by format_time
    updates_queue       \* message updates no worker has taken yet (LiveSpec)

vars == <<phase, loaded, GROUP_SETTINGS, groups_collection, handlers, tasks,
          time_str, parsed, updates_queue>>

Cmds == 1..MaxCmds
\* The handler invocations the state keeps: pyrogram runs a handler per
\* update, concurrently.
Slots == 1..(IF MaxConc > MaxCmds THEN MaxConc ELSE MaxCmds)
Tasks == 1..MaxTasks
\* The delete_message invocations the state keeps: the workers of the pool.
TaskSlots == 1..(IF MaxLive > MaxTasks THEN MaxLive ELSE MaxTasks)

\* The groups in which /set_time is sent with an argument in SettingsSpec,
\* TaskSpec and PendingSpec; every group gets the messages, /set_time
\* without argument and the new-chat events. Sets in several groups at once
\* are in ConcSpec.
SetGroups == {"g1"}

\* The argument of /set_time in TaskSpec.
TaskTimeStrs == {<<"4", "5">>}

\* Arguments of /set_time offered to the handlers.
TimeStrs ==
    {<<"4", "5">>, <<"1", "0">>, <<"2", "w", "1", "d">>, <<"U+00B2">>}

\* Characters of the parser's inputs in ParseSpec.
ParseAlphabet ==
    {"0", "1", "3", "9", "s", "m", "h", "d", "W", "x", " ", "\t", "U+00A0",
     "U+0663", "U+00B2"}
ParseInputs == UNION {[1..n -> ParseAlphabet] : n \in 0..MaxLen}

IdleCmd ==
    [pc |-> "idle", kind |-> "none", chat |-> "none", user |-> "none",
     arg |-> <<>>, delete_time |-> None, admin_seen |-> FALSE,
     write |-> "none", reply |-> "none", reply_time |-> <<>>]

IdleTask ==
    [pc |-> "idle", chat |-> "none", delete_time |-> 0, elapsed |-> 0,
     requests |-> 0, outcome |-> "none", wait |-> 0, reply |-> "none"]

\* A document of groups_collection; id stands for its _id, which the program
\* never reads: it tells the documents of one group apart, numbered from 0.
Record(id, g, v) == [id |-> id, group_id |-> g, delete_time |-> v]

\* Collections a previous run of the bot can have left: one record per group.
InitCollections ==
    UNION {{{Record(0, g, f[g]) : g \in S} : f \in [S -> InitValues]} :
           S \in SUBSET Groups}

\* dict[key] = value
DictSet(dict, key, value) ==
    [k \in DOMAIN dict \cup {key} |-> IF k = key THEN value ELSE dict[k]]

GROUP_SETTINGS_get_FromStore(cache, chat_id) ==
    IF \E r \in groups_collection : r.group_id = chat_id
    THEN (CHOOSE r \in groups_collection : r.group_id = chat_id).delete_time
    ELSE DEFAULT_DELETE_TIME

\* GROUP_SETTINGS.get(chat_id, DEFAULT_DELETE_TIME)
GROUP_SETTINGS_get(cache, chat_id) ==
    IF chat_id \in DOMAIN cache THEN cache[chat_id] ELSE DEFAULT_DELETE_TIME

\* The documents the filter {"group_id": chat_id} matches.
Matches(collection, chat_id) == {r \in collection : r.group_id = chat_id}

\* update_one({"group_id": chat_id}, {"$set": {"delete_time": v}}, upsert=True)
\* when the filter matches: the matching document r gets the new value.
update_one(collection, r, v) ==
    (collection \ {r}) \cup {[r EXCEPT !.delete_time = v]}

\* The same call when the filter matched nothing: the upsert inserts a
\* document made of the filter and the $set fields.
upsert_insert(collection, chat_id, v) ==
    LET ids == {r.id : r \in Matches(collection, chat_id)}
        id == CHOOSE i \in 0..Cardinality(ids) :
                  i \notin ids /\ \A j \in 0..(i - 1) : j \in ids
    IN collection \cup {Record(id, chat_id, v)}

\* The value update_group_settings stores for its delete_time parameter.
StoredValue(delete_time) ==
    IF delete_time # None THEN delete_time ELSE DEFAULT_DELETE_TIME

Init ==
    /\ phase = "loading"
    /\ loaded = {}
    /\ GROUP_SETTINGS = <<>>
    /\ groups_collection \in InitCollections
    /\ handlers = [c \in Slots |-> IdleCmd]
    /\ tasks = [t \in TaskSlots |-> IdleTask]
    /\ time_str = <<>>
    /\ parsed = [done |-> FALSE, value |-> None, text |-> <<>>]
    /\ updates_queue = <<>>

(***************************************************************************)
(* main(): load_group_settings, then bot.start().                          *)
(***************************************************************************)
load_group_settings_next ==
    /\ phase = "loading"
    /\ \E group \in groups_collection \ loaded :
          /\ GROUP_SETTINGS' =
                 DictSet(GROUP_SETTINGS, group.group_id, group.delete_time)
          /\ loaded' = loaded \cup {group}
    /\ UNCHANGED <<phase, groups_collection, handlers, tasks,
                   time_str, parsed,
                   updates_queue>>

\* The cursor raises: the exception leaves main() and the bot never starts.
load_group_settings_error ==
    /\ phase = "loading"
    /\ phase' = "crashed"
    /\ loaded' = {}
    /\ UNCHANGED <<GROUP_SETTINGS, groups_collection, handlers, tasks,
                   time_str, parsed,
                   updates_queue>>

LoadReturned_Early(l, collection) == TRUE

\* load_group_settings returns when the cursor is exhausted.
LoadReturned(l, collection) == l = collection

\* main() goes on to bot.start() once the awaited load has returned.
bot_start ==
    /\ phase = "loading"
    /\ LoadReturned(loaded, groups_collection)
    /\ phase' = "running"
    /\ loaded' = {}
    /\ UNCHANGED <<GROUP_SETTINGS, groups_collection, handlers, tasks,
                   time_str, parsed,
                   updates_queue>>

(***************************************************************************)
(* set_delete_time: the /set_time handler.                                 *)
(***************************************************************************)
Free(c) == handlers[c].pc \in {"idle", "done"}

\* message.chat.type in [enums.ChatType.PRIVATE]
IsPrivate(chat) == chat \in PrivateChats

\* /set_time without an argument: in a private chat reply "This command can
\* only be used in groups."; in a group reply with the current delete time.
set_delete_time_show(c, g, u) ==
    /\ phase = "running"
    /\ Free(c)
    /\ handlers' = [handlers EXCEPT ![c] =
           IF IsPrivate(g)
           THEN [IdleCmd EXCEPT !.pc = "done", !.kind = "show", !.chat = g,
                    !.user = u, !.reply = "private_only"]
           ELSE [IdleCmd EXCEPT !.pc = "done", !.kind = "show", !.chat = g,
                    !.user = u, !.reply = "current",
                    !.reply_time =
                        format_time(GROUP_SETTINGS_get(GROUP_SETTINGS, g))]]
    /\ UNCHANGED <<phase, loaded, GROUP_SETTINGS, groups_collection, tasks,
                   time_str, parsed,
                   updates_queue>>

\* /set_time <arg>: in a private chat reply "This command can only be used
\* in groups."; in a group parse, and reply "Invalid time format!" or query
\* the admins. A ValueError of the parser leaves the handler: no reply.
set_delete_time_parse(c, g, u, text) ==
    /\ phase = "running"
    /\ Free(c)
    /\ LET delete_time == parse_time_to_seconds(text) IN
       handlers' = [handlers EXCEPT ![c] =
           IF IsPrivate(g)
           THEN [IdleCmd EXCEPT !.pc = "done", !.kind = "set_time",
                    !.chat = g, !.user = u, !.arg = text,
                    !.reply = "private_only"]
           ELSE IF delete_time = ValueError
           THEN [IdleCmd EXCEPT !.pc = "done", !.kind = "set_time",
                    !.chat = g, !.user = u, !.arg = text]
           ELSE IF delete_time = None
           THEN [IdleCmd EXCEPT !.pc = "done", !.kind = "set_time",
                    !.chat = g, !.user = u, !.arg = text,
                    !.reply = "invalid_format"]
           ELSE [IdleCmd EXCEPT !.pc = "auth", !.kind = "set_time",
                    !.chat = g, !.user = u, !.arg = text,
                    !.delete_time = delete_time]]
    /\ UNCHANGED <<phase, loaded, GROUP_SETTINGS, groups_collection, tasks,
                   time_str, parsed,
                   updates_queue>>

NotAdministrator_Unchecked(user_id, administrators) == FALSE

\* user_id not in administrators
NotAdministrator(user_id, administrators) == user_id \notin administrators

\* get_chat_members answers with the group's administrators: reject, or
\* call update_group_settings.
set_delete_time_auth(c, administrators) ==
    /\ phase = "running"
    /\ handlers[c].pc = "auth"
    /\ LET h == handlers[c]
       IN handlers' = [handlers EXCEPT ![c] =
              IF NotAdministrator(h.user, administrators)
              THEN [h EXCEPT !.pc = "done", !.reply = "not_admin",
                       !.admin_seen = h.user \in administrators]
              ELSE [h EXCEPT !.pc = "write",
                       !.admin_seen = h.user \in administrators]]
    /\ UNCHANGED <<phase, loaded, GROUP_SETTINGS, groups_collection, tasks,
                   time_str, parsed,
                   updates_queue>>

\* get_chat_members raises: the exception leaves the handler.
set_delete_time_auth_error(c) ==
    /\ phase = "running"
    /\ handlers[c].pc = "auth"
    /\ handlers' = [handlers EXCEPT ![c].pc = "done"]
    /\ UNCHANGED <<phase, loaded, GROUP_SETTINGS, groups_collection, tasks,
                   time_str, parsed,
                   updates_queue>>

(***************************************************************************)
(* handle_new_chat: the bot is among the new members of group g.           *)
(***************************************************************************)
handle_new_chat(c, g) ==
    /\ phase = "running"
    /\ Free(c)
    /\ handlers' = [handlers EXCEPT ![c] =
           [IdleCmd EXCEPT !.pc = "write", !.kind = "new_chat", !.chat = g]]
    /\ UNCHANGED <<phase, loaded, GROUP_SETTINGS, groups_collection, tasks,
                   time_str, parsed,
                   updates_queue>>

(***************************************************************************)
(* update_group_settings, and the reply its caller sends after it.         *)
(***************************************************************************)
\* The reply a handler sends once update_group_settings has returned.
ReplyAfterUpdate(h) ==
    IF h.kind = "set_time"
    THEN [h EXCEPT !.pc = "done", !.reply = "set_ok",
             !.reply_time = format_time(h.delete_time)]
    ELSE [h EXCEPT !.pc = "done", !.reply = "welcome"]

\* The database applies the upsert: it updates a document of the group, or
\* inserts one when the group has none.
update_group_settings_write(c) ==
    /\ phase = "running"
    /\ handlers[c].pc = "write"
    /\ IF Matches(groups_collection, handlers[c].chat) = {}
       THEN groups_collection' =
                upsert_insert(groups_collection, handlers[c].chat,
                              StoredValue(handlers[c].delete_time))
       ELSE \E r \in Matches(groups_collection, handlers[c].chat) :
               groups_collection' =
                   update_one(groups_collection, r,
                              StoredValue(handlers[c].delete_time))
    /\ handlers' = [handlers EXCEPT ![c].pc = "resume"]
    /\ UNCHANGED <<phase, loaded, GROUP_SETTINGS, tasks, time_str,
                   parsed,
                   updates_queue>>

\* The same upsert in two steps of the server: the search finds no document
\* of the group, and the insert follows later. The collection has no unique
\* index on group_id (lines 24-27 create none), so nothing keeps another
\* upsert of the group from running between the two.
update_group_settings_miss(c) ==
    /\ phase = "running"
    /\ handlers[c].pc = "write"
    /\ Matches(groups_collection, handlers[c].chat) = {}
    /\ handlers' = [handlers EXCEPT ![c].pc = "insert"]
    /\ UNCHANGED <<phase, loaded, GROUP_SETTINGS, groups_collection, tasks,
                   time_str, parsed,
                   updates_queue>>

\* The database inserts the document of an upsert that matched nothing.
update_group_settings_insert(c) ==
    /\ phase = "running"
    /\ handlers[c].pc = "insert"
    /\ groups_collection' =
           upsert_insert(groups_collection, handlers[c].chat,
                         StoredValue(handlers[c].delete_time))
    /\ handlers' = [handlers EXCEPT ![c].pc = "resume"]
    /\ UNCHANGED <<phase, loaded, GROUP_SETTINGS, tasks, time_str,
                   parsed,
                   updates_queue>>

CacheAfterWrite_All(cache, chat_id, v) ==
    [k \in DOMAIN cache \cup {chat_id} |-> v]

\* The cache after the awaited update_one has returned.
CacheAfterWrite(cache, chat_id, v) == DictSet(cache, chat_id, v)

\* The await returns: the cache is updated and the caller replies.
update_group_settings_resume(c) ==
    /\ phase = "running"
    /\ handlers[c].pc = "resume"
    /\ GROUP_SETTINGS' =
           CacheAfterWrite(GROUP_SETTINGS, handlers[c].chat,
                           StoredValue(handlers[c].delete_time))
    /\ handlers' = [handlers EXCEPT ![c] =
           ReplyAfterUpdate([handlers[c] EXCEPT !.write = "ok"])]
    /\ UNCHANGED <<phase, loaded, groups_collection, tasks, time_str,
                   parsed,
                   updates_queue>>

CacheAfterFailedWrite_Updated(cache, chat_id, v) == DictSet(cache, chat_id, v)

\* The cache after update_one has raised.
CacheAfterFailedWrite(cache, chat_id, v) == cache

\* The awaited update_one raises: before the server has applied the upsert
\* (pc "write", or "insert" after a search that found nothing), or after it
\* has (pc "resume": the answer is lost). The except clause prints, the
\* cache keeps its value, and the caller replies.
update_group_settings_except(c) ==
    /\ phase = "running"
    /\ handlers[c].pc \in {"write", "insert", "resume"}
    /\ GROUP_SETTINGS' =
           CacheAfterFailedWrite(GROUP_SETTINGS, handlers[c].chat,
                                 StoredValue(handlers[c].delete_time))
    /\ handlers' = [handlers EXCEPT ![c] =
           ReplyAfterUpdate([handlers[c] EXCEPT !.write = "failed"])]
    /\ UNCHANGED <<phase, loaded, groups_collection, tasks, time_str,
                   parsed,
                   updates_queue>>

(***************************************************************************)
(* delete_message: one invocation per text message of a group.             *)
(***************************************************************************)
\* Worker t runs no handler.
FreeWorker(t) == tasks[t].pc \in {"idle", "done"}

\* The invocation up to its first await: read the cache and start
\* asyncio.sleep(delete_time).
Started(g) ==
    [IdleTask EXCEPT !.pc = "sleeping", !.chat = g,
        !.delete_time = GROUP_SETTINGS_get(GROUP_SETTINGS, g)]

\* A message arrives while a worker is free and no update waits: the worker
\* invokes the handler.
delete_message(t, g) ==
    /\ phase = "running"
    /\ FreeWorker(t)
    /\ updates_queue = <<>>
    /\ tasks' = [tasks EXCEPT ![t] = Started(g)]
    /\ UNCHANGED <<phase, loaded, GROUP_SETTINGS, groups_collection,
                   handlers, time_str, parsed,
                   updates_queue>>

\* A text message of group g arrives: the client puts its update on the
\* queue of the workers.
message_update(g) ==
    /\ phase = "running"
    /\ Len(updates_queue) < MaxQueue
    /\ updates_queue' = Append(updates_queue, g)
    /\ UNCHANGED <<phase, loaded, GROUP_SETTINGS, groups_collection,
                   handlers, tasks, time_str, parsed>>

\* A free worker takes the oldest update and invokes delete_message on it.
\* A worker awaits its handler: while the handler sleeps it takes nothing.
handler_worker(t) ==
    /\ phase = "running"
    /\ FreeWorker(t)
    /\ updates_queue # <<>>
    /\ tasks' = [tasks EXCEPT ![t] = Started(Head(updates_queue))]
    /\ updates_queue' = Tail(updates_queue)
    /\ UNCHANGED <<phase, loaded, GROUP_SETTINGS, groups_collection,
                   handlers, time_str, parsed>>

Min(a, b) == IF a < b THEN a ELSE b

\* The clock advances; elapsed is the time a task has slept, counted up to
\* the length of its sleep.
Tick ==
    /\ phase = "running"
    /\ \E t \in TaskSlots :
          tasks[t].pc = "sleeping" /\ tasks[t].elapsed < tasks[t].delete_time
    /\ tasks' = [t \in TaskSlots |->
           IF tasks[t].pc = "sleeping"
           THEN [tasks[t] EXCEPT !.elapsed =
                    Min(tasks[t].elapsed + TickSeconds, tasks[t].delete_time)]
           ELSE tasks[t]]
    /\ UNCHANGED <<phase, loaded, GROUP_SETTINGS, groups_collection,
                   handlers, time_str, parsed,
                   updates_queue>>

SleepOver_NoSleep(task) == TRUE

SleepOver_CurrentSetting(task) ==
    task.elapsed >= (IF task.chat \in DOMAIN GROUP_SETTINGS
                     THEN GROUP_SETTINGS[task.chat]
                     ELSE DEFAULT_DELETE_TIME)

\* asyncio.sleep(delete_time) has returned.
SleepOver(task) == task.elapsed >= task.delete_time

\* The sleep has returned: message.delete() is called, and the coroutine is
\* suspended until the request is answered.
message_delete_call(t) ==
    /\ phase = "running"
    /\ tasks[t].pc = "sleeping"
    /\ SleepOver(tasks[t])
    /\ tasks' = [tasks EXCEPT ![t] =
           [tasks[t] EXCEPT !.pc = "awaiting_delete",
               !.requests = tasks[t].requests + 1]]
    /\ UNCHANGED <<phase, loaded, GROUP_SETTINGS, groups_collection,
                   handlers, time_str, parsed,
                   updates_queue>>

AfterDelete_Reports(task, outcome, w) ==
    [task EXCEPT !.pc = "done", !.chat = "none",
        !.outcome = outcome, !.wait = w,
        !.reply = IF outcome = "ok" THEN "none" ELSE "delete_failed"]

\* What the handler does with the answer to message.delete(): every answer,
\* an exception included, ends it; the exception is printed, nothing is sent
\* to the chat (chat_id is not used after the end).
AfterDelete(task, outcome, w) ==
    [task EXCEPT !.pc = "done", !.chat = "none",
        !.outcome = outcome, !.wait = w, !.reply = "none"]

\* The request is answered: message.delete() returns ("ok") or raises
\* FloodWait ("flood") or another exception ("error").
message_delete(t, outcome, w) ==
    /\ phase = "running"
    /\ tasks[t].pc = "awaiting_delete"
    /\ tasks' = [tasks EXCEPT ![t] = AfterDelete(tasks[t], outcome, w)]
    /\ UNCHANGED <<phase, loaded, GROUP_SETTINGS, groups_collection,
                   handlers, time_str, parsed,
                   updates_queue>>

(***************************************************************************)
(* Specifications.                                                         *)
(***************************************************************************)
BootNext ==
    \/ load_group_settings_next
    \/ load_group_settings_error
    \/ bot_start

\* The steps of update_group_settings in the slots C.
UpdateNext(C) ==
    \/ \E c \in C : update_group_settings_write(c)
    \/ \E c \in C : update_group_settings_resume(c)
    \/ \E c \in C : update_group_settings_except(c)

\* The steps of the /set_time and new-chat handlers in the slots C.
\* The slots are interchangeable: an arriving update takes the first free one.
FirstFree(c) == Free(c) /\ \A d \in 1..(c - 1) : ~Free(d)

\* in the groups, /set_time with the arguments of Texts,
GroupHandlerNext(C, Texts) ==
    \/ \E c \in C, g \in Groups, u \in Users :
          FirstFree(c) /\ set_delete_time_show(c, g, u)
    \/ \E c \in C, g \in SetGroups, u \in Users, text \in Texts :
          FirstFree(c) /\ set_delete_time_parse(c, g, u, text)
    \/ \E c \in C, administrators \in SUBSET Members :
          set_delete_time_auth(c, administrators)
    \/ \E c \in C : set_delete_time_auth_error(c)
    \/ \E c \in C, g \in Groups : FirstFree(c) /\ handle_new_chat(c, g)
    \/ UpdateNext(C)

\* and /set_time, with and without argument, in the private chats.
PrivateHandlerNext(C) ==
    \/ \E c \in C, g \in PrivateChats, u \in Users :
          FirstFree(c) /\ set_delete_time_show(c, g, u)
    \/ \E c \in C, g \in PrivateChats, u \in Users :
          FirstFree(c) /\ set_delete_time_parse(c, g, u, <<"4", "5">>)

HandlerNext(C) == GroupHandlerNext(C, TimeStrs) \/ PrivateHandlerNext(C)

\* The request of task t is answered, in one of the ways.
DeleteAnswered(t) ==
    \/ message_delete(t, "ok", 0)
    \/ \E w \in FloodWaits : message_delete(t, "flood", w)
    \/ message_delete(t, "error", 0)

\* The steps of the delete_message handlers in the slots T.
MessageNextOn(T) ==
    \/ \E t \in T, g \in Groups : delete_message(t, g)
    \/ Tick
    \/ \E t \in T : message_delete_call(t)
    \/ \E t \in T : DeleteAnswered(t)

MessageNext == MessageNextOn(Tasks)

Next == BootNext \/ HandlerNext(Cmds) \/ MessageNext

\* The whole bot: MaxCmds command handlers and MaxTasks delete_message
\* handlers in flight at once.
Spec == Init /\ [][Next]_vars

\* The settings side alone: the command handlers, and no group message.
SettingsNext == BootNext \/ HandlerNext(Cmds)

SettingsSpec == Init /\ [][SettingsNext]_vars

\* The deletion side: the delete_message handlers, with the commands of the
\* groups handled one at a time.
TaskNext == BootNext \/ GroupHandlerNext({1}, TaskTimeStrs) \/ MessageNext

TaskSpec == Init /\ [][TaskNext]_vars

\* Concurrent sets: up to MaxConc invocations of /set_time 45 by an
\* administrator and of the new-chat handler, interleaved at their awaits.
ConcNext ==
    \/ BootNext
    \/ \E c \in Slots, g \in Groups, u \in Users :
          FirstFree(c) /\ set_delete_time_parse(c, g, u, <<"4", "5">>)
    \/ \E c \in Slots : set_delete_time_auth(c, Members)
    \/ \E c \in Slots, g \in Groups : FirstFree(c) /\ handle_new_chat(c, g)
    \/ UpdateNext(Slots)

ConcSpec == Init /\ [][ConcNext]_vars

\* The same with the upsert of a group without document in its two steps.
UpsertNext ==
    \/ ConcNext
    \/ \E c \in Slots : update_group_settings_miss(c)
    \/ \E c \in Slots : update_group_settings_insert(c)

UpsertSpec == Init /\ [][UpsertNext]_vars

\* The workers are interchangeable: an update goes to the first free one.
FirstFreeWorker(t) == FreeWorker(t) /\ \A d \in 1..(t - 1) : ~FreeWorker(d)

\* Several pending deletions and the commands: MaxLive delete_message
\* handlers in flight at once in the groups, with the /set_time 45 commands
\* of SetGroups, one at a time.
PendingNext ==
    \/ BootNext
    \/ \E g \in SetGroups, u \in Users :
          set_delete_time_parse(1, g, u, <<"4", "5">>)
    \/ \E administrators \in SUBSET Members :
          set_delete_time_auth(1, administrators)
    \/ UpdateNext({1})
    \/ \E t \in TaskSlots, g \in Groups :
          FirstFreeWorker(t) /\ delete_message(t, g)
    \/ Tick
    \/ \E t \in TaskSlots : message_delete_call(t)
    \/ \E t \in TaskSlots : DeleteAnswered(t)

PendingSpec == Init /\ [][PendingNext]_vars

\* The delete_message handlers and the queue of their updates, on a pool of
\* MaxLive workers. The event loop ends every sleep and gives a waiting update
\* to a free worker, and every delete request is eventually answered.
LiveNext ==
    \/ BootNext
    \/ \E g \in Groups : message_update(g)
    \/ \E t \in TaskSlots : FirstFreeWorker(t) /\ handler_worker(t)
    \/ Tick
    \/ \E t \in TaskSlots : message_delete_call(t)
    \/ \E t \in TaskSlots : DeleteAnswered(t)

LiveSpec ==
    /\ Init
    /\ [][LiveNext]_vars
    /\ WF_vars(bot_start)
    /\ WF_vars(Tick)
    /\ WF_vars(\E t \in TaskSlots : FirstFreeWorker(t) /\ handler_worker(t))
    /\ \A t \in TaskSlots : WF_vars(message_delete_call(t))
    /\ \A t \in TaskSlots : WF_vars(DeleteAnswered(t))

\* The parser alone, on every string over ParseAlphabet up to MaxLen.
ParseInit ==
    /\ phase = "loading"
    /\ loaded = {}
    /\ GROUP_SETTINGS = <<>>
    /\ groups_collection = {}
    /\ handlers = [c \in Slots |-> IdleCmd]
    /\ tasks = [t \in TaskSlots |-> IdleTask]
    /\ time_str \in ParseInputs
    /\ parsed = [done |-> FALSE, value |-> None, text |-> <<>>]
    /\ updates_queue = <<>>

parse_step ==
    /\ ~parsed.done
    /\ parsed' = [done |-> TRUE, value |-> parse_time_to_seconds(time_str),
                  text |-> <<>>]
    /\ UNCHANGED <<phase, loaded, GROUP_SETTINGS, groups_collection,
                   handlers, tasks, time_str,
                   updates_queue>>

ParseNext == parse_step

ParseSpec == ParseInit /\ [][ParseNext]_vars

\* Durations around the unit boundaries: up to MaxQuot units, exact, one
\* second more and one second less, and the durations 45, 90 and 3599.
FormatDurations ==
    {45, 90, 3599} \cup
    {k * time_multipliers(u) + r :
        k \in 1..MaxQuot, u \in Units, r \in {-1, 0, 1}}

\* /set_time arguments: the strings of ParseSpec and the durations in digits.
FormatInputs == ParseInputs \cup {DigitsOf(d) : d \in FormatDurations}

FormatInit ==
    /\ phase = "loading"
    /\ loaded = {}
    /\ GROUP_SETTINGS = <<>>
    /\ groups_collection = {}
    /\ handlers = [c \in Slots |-> IdleCmd]
    /\ tasks = [t \in TaskSlots |-> IdleTask]
    /\ time_str \in FormatInputs
    /\ parsed = [done |-> FALSE, value |-> None, text |-> <<>>]
    /\ updates_queue = <<>>

\* format_time(delete_time) of the reply, for a delete_time the parser gave.
format_step ==
    /\ parsed.done
    /\ parsed.value \notin {None, ValueError}
    /\ parsed.text = <<>>
    /\ parsed' = [parsed EXCEPT !.text = format_time_text(parsed.value)]
    /\ UNCHANGED <<phase, loaded, GROUP_SETTINGS, groups_collection,
                   handlers, tasks, time_str,
                   updates_queue>>

FormatNext == parse_step \/ format_step

\* The parser and format_time on its result.
FormatSpec == FormatInit /\ [][FormatNext]_vars

(***************************************************************************)
(* The time-string contract.                                               *)
(***************************************************************************)
\* What the contract gives for a time string without whitespace: for digits,
\* or digits and one unit letter in either case, the product when it lies in
\* [30, 604800]; None for every other string.
ContractParse(s) ==
    LET n == Len(s)
        last == IF n = 0 THEN "" ELSE LowerChar(s[n])
        InRange(x) == IF x >= 30 /\ x <= 604800 THEN x ELSE None
    IN IF n >= 1 /\ \A i \in 1..n : s[i] \in AsciiDigits
       THEN InRange(ToInt(s))
       ELSE IF n >= 2 /\ last \in Units
               /\ \A i \in 1..(n - 1) : s[i] \in AsciiDigits
            THEN InRange(ToInt(SubSeq(s, 1, n - 1)) * time_multipliers(last))
            ELSE None

NoWhitespace(s) == \A i \in 1..Len(s) : s[i] \notin Whitespace

\* C1: on every time string (without whitespace) the parser returns the
\* product n * multiplier(unit) exactly when it lies in [30, 604800], and
\* fails on every other string, bare numbers such as 10 or 0 included.
C1_ParseContract ==
    (parsed.done /\ NoWhitespace(time_str))
        => parsed.value = ContractParse(time_str)

\* C2: a /set_time in a group whose argument the contract rejects is
\* answered with "invalid format" and gets no further: it queries nothing
\* and writes nothing.
C2_InvalidRejected ==
    \A c \in Cmds :
        (handlers[c].kind = "set_time"
            /\ handlers[c].chat \in Groups
            /\ ContractParse(handlers[c].arg) = None)
        => /\ handlers[c].pc = "done"
           /\ handlers[c].reply = "invalid_format"
           /\ handlers[c].write = "none"

InContractRange(v) == v = 0 \/ (v >= 30 /\ v <= 604800)

\* C3: every delete_time held in the cache and in the collection is 0 or
\* lies in [30, 604800].
C3_ValuesInRange ==
    /\ \A g \in DOMAIN GROUP_SETTINGS : InContractRange(GROUP_SETTINGS[g])
    /\ \A r \in groups_collection : InContractRange(r.delete_time)

(***************************************************************************)
(* Authorization.                                                          *)
(***************************************************************************)
SettingsChange ==
    GROUP_SETTINGS' # GROUP_SETTINGS \/ groups_collection' # groups_collection

\* C4: a step of a /set_time handler changes the cache or the collection
\* only if the membership query of that same invocation reported the sender
\* as an administrator; a handler whose query did not report it, or failed,
\* ends there and changes nothing.
C4_AdminGate ==
    [][\A c \in Cmds :
          LET h == handlers[c]
              h2 == handlers'[c]
          IN (h2 # h /\ (h.kind = "set_time" \/ h2.kind = "set_time"))
             => /\ SettingsChange
                    => (h.pc \in {"write", "insert", "resume"}
                        /\ h.admin_seen)
                /\ (h.pc = "auth" /\ ~h2.admin_seen)
                    => (h2.pc = "done" /\ h2.write = "none"
                        /\ h2.reply \in {"not_admin", "none"}
                        /\ ~SettingsChange)
                /\ h2.pc = "auth" => ~h2.admin_seen]_vars

\* u1 set 45 while listed as an administrator, is no longer listed on a
\* later /set_time, and is rejected: the setting is still 45.
C4_Witness ==
    \E c \in Cmds :
        /\ handlers[c].pc = "done"
        /\ handlers[c].kind = "set_time"
        /\ handlers[c].reply = "not_admin"
        /\ handlers[c].user = "u1"
        /\ handlers[c].chat \in DOMAIN GROUP_SETTINGS
        /\ GROUP_SETTINGS[handlers[c].chat] = 45

(***************************************************************************)
(* A failed write.                                                         *)
(***************************************************************************)
WriteFails(c) ==
    handlers[c].write # "failed" /\ handlers'[c].write = "failed"

\* C5: the step in which the write of update_group_settings fails leaves
\* the cache and the collection as they were, so a read of any group gives
\* what it gave before.
C5_FailedWriteKeepsCache ==
    [][\A c \in Cmds :
          WriteFails(c)
          => /\ GROUP_SETTINGS' = GROUP_SETTINGS
             /\ groups_collection' = groups_collection]_vars

\* A /set_time 45 whose write failed, in a group whose cache has no 45.
C5_Witness ==
    \E c \in Cmds :
        /\ handlers[c].pc = "done"
        /\ handlers[c].write = "failed"
        /\ handlers[c].delete_time = 45
        /\ (handlers[c].chat \notin DOMAIN GROUP_SETTINGS
            \/ GROUP_SETTINGS[handlers[c].chat] # 45)

\* C6: a /set_time whose write failed never sends the confirmation
\* "Set delete time to ...".
C6_NoSuccessAfterFailedWrite ==
    \A c \in Cmds :
        (handlers[c].kind = "set_time" /\ handlers[c].write = "failed")
        => handlers[c].reply # "set_ok"

(***************************************************************************)
(* The read path.                                                          *)
(***************************************************************************)
Cached(g) == IF g \in DOMAIN GROUP_SETTINGS THEN GROUP_SETTINGS[g] ELSE 600

\* C7: a read (by an arriving message or by /set_time without argument)
\* gives the cached value of the group, 600 when it has none, whatever the
\* collection holds, and changes neither layer; and the cache holds d as
\* soon as a successful set of d returns.
C7_ReadIsCache ==
    [][/\ \A t \in Tasks :
             (tasks'[t] # tasks[t] /\ tasks[t].pc # "sleeping"
                 /\ tasks'[t].pc = "sleeping")
             => /\ tasks'[t].delete_time = Cached(tasks'[t].chat)
                /\ ~SettingsChange
       /\ \A c \in Cmds :
             /\ (handlers'[c] # handlers[c] /\ handlers'[c].kind = "show"
                    /\ handlers'[c].chat \in Groups)
                => /\ handlers'[c].reply_time =
                          format_time(Cached(handlers'[c].chat))
                   /\ ~SettingsChange
             /\ (handlers[c].write # "ok" /\ handlers'[c].write = "ok")
                => /\ handlers[c].chat \in DOMAIN GROUP_SETTINGS'
                   /\ GROUP_SETTINGS'[handlers[c].chat] =
                          (IF handlers[c].kind = "set_time"
                           THEN handlers[c].delete_time ELSE 600)]_vars

\* A message read 600 from the cache while the collection already holds the
\* 45 of a set whose update_one has not returned yet.
C7_Witness ==
    \E t \in Tasks, c \in Cmds :
        /\ tasks[t].pc = "sleeping"
        /\ tasks[t].elapsed = 0
        /\ tasks[t].delete_time = 600
        /\ handlers[c].pc = "resume"
        /\ handlers[c].chat = tasks[t].chat
        /\ 45 \in {r.delete_time :
                      r \in Matches(groups_collection, tasks[t].chat)}

(***************************************************************************)
(* The deletion tasks.                                                     *)
(***************************************************************************)
\* C8: a message that arrived while its group's delete time was 0 never
\* gets a delete request.
C8_DisabledNeverDeletes ==
    \A t \in Tasks :
        (tasks[t].pc # "idle" /\ tasks[t].delete_time = 0)
        => tasks[t].requests = 0

\* C9: a delete request for a message that arrived under delete time d > 0
\* is issued only once d seconds have passed since its arrival, whatever
\* the other pending tasks and the commands do meanwhile.
C9_NoEarlyDelete ==
    \A t \in TaskSlots :
        (tasks[t].delete_time > 0 /\ tasks[t].requests > 0)
        => tasks[t].elapsed >= tasks[t].delete_time

\* Two messages of one group are pending together: the first arrived under
\* 600 s and has slept 300 s without a request, the second arrived after the
\* group was set to 45 s and got its delete request once its 45 s were over.
C9_Witness ==
    \E t \in TaskSlots, o \in TaskSlots :
        /\ tasks[t].chat = tasks[o].chat
        /\ tasks[t].pc = "sleeping"
        /\ tasks[t].delete_time = 600
        /\ tasks[t].elapsed = 300
        /\ tasks[t].requests = 0
        /\ tasks[o].pc = "awaiting_delete"
        /\ tasks[o].delete_time = 45
        /\ tasks[o].elapsed = 45
        /\ tasks[o].requests = 1

\* C10: a task whose delete request was answered with a rate-limit signal
\* issues exactly one more delete request before it ends.
C10_RetryOnceAfterFlood ==
    \A t \in Tasks :
        (tasks[t].pc = "done" /\ tasks[t].outcome = "flood")
        => tasks[t].requests = 2

\* C11: a task whose delete request failed with an error that is no
\* rate-limit signal has ended after that one request, and no task, whatever
\* the answer to its delete request, has sent a message to the chat.
C11_ErrorEndsSilently ==
    \A t \in Tasks :
        /\ tasks[t].outcome = "error"
            => (tasks[t].pc = "done" /\ tasks[t].requests = 1)
        /\ tasks[t].reply = "none"

\* A task, due after 600 s, whose delete request failed with an error.
C11_Witness ==
    \E t \in Tasks :
        /\ tasks[t].pc = "done"
        /\ tasks[t].outcome = "error"
        /\ tasks[t].delete_time = 600
        /\ tasks[t].requests = 1

\* The delete_time values the collection holds for group g.
Persisted(g) ==
    {r.delete_time : r \in Matches(groups_collection, g)}

\* C12: a step of the handler of "the bot was added to group g" leaves the
\* setting of g as it was, in the collection and in the cache, when g
\* already has one: the default is created only for a group without setting.
C12_BotAddedKeepsSetting ==
    [][\A c \in Cmds :
          LET h == handlers[c]
              g == handlers[c].chat
          IN (h.kind = "new_chat" /\ handlers'[c] # h)
             => /\ Persisted(g) # {}
                    => groups_collection' = groups_collection
                /\ g \in DOMAIN GROUP_SETTINGS
                    => GROUP_SETTINGS' = GROUP_SETTINGS]_vars

\* A set on group g is in progress: update_group_settings has been entered
\* and has not returned.
SetInProgress(g) ==
    \E c \in Slots :
        handlers[c].chat = g /\ handlers[c].pc \in {"write", "insert", "resume"}

\* C13: once the bot runs, whenever no set on a group is in progress the
\* cache and the collection agree on the group: both have no value, or the
\* collection's one document holds the cached value.
C13_LayersAgreeWhenQuiet ==
    phase = "running"
    => \A g \in Groups :
          (~SetInProgress(g)
              /\ Cardinality(Matches(groups_collection, g)) <= 1)
          => IF g \in DOMAIN GROUP_SETTINGS
             THEN Persisted(g) = {GROUP_SETTINGS[g]}
             ELSE Persisted(g) = {}

\* C14: the collection holds at most one document per group_id, in every
\* reachable state, two concurrent upserts for a group without document
\* included.
C14_OneRecordPerGroup ==
    \A g \in Groups : Cardinality(Matches(groups_collection, g)) <= 1

\* C15: no handler of a command or of a message takes a step before the
\* bot is started, and the bot is started only with every document of the
\* collection in the cache: a message never gets the default for a group
\* whose persisted value is not loaded yet.
C15_LoadBeforeProcessing ==
    [][/\ (handlers' # handlers \/ tasks' # tasks) => phase = "running"
       /\ (phase = "loading" /\ phase' = "running")
           => \A r \in groups_collection :
                 /\ r.group_id \in DOMAIN GROUP_SETTINGS'
                 /\ GROUP_SETTINGS'[r.group_id] = r.delete_time]_vars

\* A message of a group whose persisted 0 was there at startup, no command
\* handled since: the task has read 0, not the default.
C15_Witness ==
    \E t \in Tasks :
        /\ tasks[t].pc = "sleeping"
        /\ tasks[t].delete_time = 0
        /\ Persisted(tasks[t].chat) = {0}
        /\ \A c \in Slots : handlers[c] = IdleCmd

\* C16: a failure of the load at startup never ends the startup: main() is
\* never left with the bot not started.
C16_LoadFailureDoesNotStopStartup == phase # "crashed"

\* The largest unit whose multiplier is at most d.
ContractUnit(d) ==
    CHOOSE u \in Units :
        /\ time_multipliers(u) <= d
        /\ \A v \in Units :
              time_multipliers(v) <= d
                  => time_multipliers(v) <= time_multipliers(u)

\* The floor of d divided by that multiplier, then the unit letter.
ContractFormat(d) ==
    Append(DigitsOf(d \div time_multipliers(ContractUnit(d))),
           ContractUnit(d))

\* C17: for a duration d in [30, 604800] format_time gives the floor of d by
\* the largest unit not above d, then the unit letter: "1m" for 90, "59m"
\* for 3599, "45s" for 45. The text is the string that was parsed only if
\* that string is digits and one unit letter; the text parses back to d when
\* d is a multiple of the unit, and to another duration when it is not.
C17_FormatFloorsLargestUnit ==
    parsed.text # <<>>
    => LET d == parsed.value
           m == time_multipliers(ContractUnit(d))
       IN (d >= 30 /\ d <= 604800)
          => /\ parsed.text = ContractFormat(d)
             /\ d = 90 => parsed.text = <<"1", "m">>
             /\ d = 3599 => parsed.text = <<"5", "9", "m">>
             /\ d = 45 => parsed.text = <<"4", "5", "s">>
             /\ parsed.text = time_str
                 => /\ Len(time_str) >= 2
                    /\ time_str[Len(time_str)] \in Units
                    /\ IsDigitStr(SubSeq(time_str, 1, Len(time_str) - 1))
                    /\ d % m = 0
             /\ (d % m = 0) <=> (parse_time_to_seconds(parsed.text) = d)

\* /set_time 3599 answered with "59m".
C17_Witness ==
    /\ time_str = <<"3", "5", "9", "9">>
    /\ parsed.value = 3599
    /\ parsed.text = <<"5", "9", "m">>

\* A handler invocation with a delay above 0 makes its delete request and
\* ends as completed or failed, with at most two requests.
TaskEnds ==
    \A t \in TaskSlots :
        (tasks[t].pc = "sleeping" /\ tasks[t].delete_time > 0)
            ~> (/\ tasks[t].pc = "done"
                /\ tasks[t].outcome \in {"ok", "flood", "error"}
                /\ tasks[t].requests \in 1..2)

\* A message is never kept waiting for another task to end: while its update
\* waits, a worker is free to take it.
NoTaskWaits ==
    [](updates_queue # <<>> => \E t \in TaskSlots : FreeWorker(t))

\* C18: every deletion task ends: with every delete request answered, a
\* task with a delay above 0 makes its request and ends as completed or
\* failed after at most two suspensions, and the progress of no message's
\* task depends on another task ending.
C18_TaskTerminates == TaskEnds /\ NoTaskWaits

\* C19: a pending task keeps the delay it read when its message arrived and
\* is never dropped: a step that changes the cache changes no task, and the
\* delete request is made only once that delay has passed, whatever the
\* group's setting is by then.
C19_DelayFixedAtArrival ==
    [][\A t \in Tasks :
          tasks[t].pc \in {"sleeping", "awaiting_delete"}
          => /\ tasks'[t].pc \in {"sleeping", "awaiting_delete", "done"}
             /\ tasks'[t].delete_time = tasks[t].delete_time
             /\ tasks'[t].requests # tasks[t].requests
                 => /\ tasks[t].elapsed >= tasks[t].delete_time
                    /\ tasks'[t].requests = 1
             /\ GROUP_SETTINGS' # GROUP_SETTINGS => tasks' = tasks]_vars

\* A message arrived under 600, the group was set to 45 afterwards, and the
\* task has slept its 600 s and made its delete request.
C19_Witness ==
    \E t \in Tasks :
        /\ tasks[t].pc = "awaiting_delete"
        /\ tasks[t].delete_time = 600
        /\ tasks[t].elapsed = 600
        /\ tasks[t].requests = 1
        /\ tasks[t].chat \in DOMAIN GROUP_SETTINGS
        /\ GROUP_SETTINGS[tasks[t].chat] = 45

\* The cache and the collection hold the same for group g after the step.
GroupUnchanged(g) ==
    /\ Matches(groups_collection', g) = Matches(groups_collection, g)
    /\ (g \in DOMAIN GROUP_SETTINGS') = (g \in DOMAIN GROUP_SETTINGS)
    /\ g \in DOMAIN GROUP_SETTINGS => GROUP_SETTINGS'[g] = GROUP_SETTINGS[g]

\* C20: every step of update_group_settings for group g, applied, resumed or
\* failed, for /set_time or for the bot added, leaves the cache entry and
\* the documents of every other group as they were, with other sets in
\* progress on other groups.
C20_OtherGroupsUntouched ==
    [][\A c \in Slots :
          (handlers'[c] # handlers[c]
              /\ handlers[c].pc \in {"write", "insert", "resume"})
          => \A g \in Groups \ {handlers[c].chat} : GroupUnchanged(g)]_vars

\* A set of 45 on g1 and the bot added to g2 are both applied and not yet
\* resumed: g1 holds 45 and g2 holds 600.
C20_Witness ==
    \E c1, c2 \in Slots :
        /\ handlers[c1].pc = "resume" /\ handlers[c2].pc = "resume"
        /\ handlers[c1].kind = "set_time" /\ handlers[c1].chat = "g1"
        /\ handlers[c2].kind = "new_chat" /\ handlers[c2].chat = "g2"
        /\ Persisted("g1") = {45}
        /\ Persisted("g2") = {600}

====
